---------------------------- MODULE Spec2Model ----------------------------
(***************************************************************************)
(* Model of mnelab/io/readers.py: the suffix registry (supported,          *)
(* suggested, readers), the dispatcher read_raw, the reporter              *)
(* _read_unsupported and the flat-array loader read_numpy.                 *)
(*                                                                         *)
(* A Python str is a sequence of one-character strings, so that            *)
(* str.lower, str.count, str.join, str.split and list slicing are          *)
(* computed, not assumed.  A Python dict is a function; a Python value     *)
(* passed as an option is a tagged record (PyStr, PyInt, NoneV).               *)
(***************************************************************************)
EXTENDS Integers, Sequences, FiniteSets, TLC

(***************************************************************************)
(* Bounds of the inputs.                                                   *)
(***************************************************************************)
\* longest list of positional options a caller passes to read_raw
MaxArgs == 1
\* largest dimensionality of an array stored in a .npy file
MaxNdim == 3
\* largest extent of one dimension of such an array
MaxDim == 2

(***************************************************************************)
(* Python values.                                                          *)
(***************************************************************************)
NoneV == [t |-> "None", s |-> <<>>, n |-> 0]
PyStr(s) == [t |-> "str", s |-> s, n |-> 0]
PyInt(n) == [t |-> "int", s |-> <<>>, n |-> n]

\* the empty dict {}
EmptyDict == [k \in {} |-> NoneV]

\* d.update(e), {**d, **e}: on a common key the entry of e replaces that of d
DictUpdate(d, e) ==
    [k \in (DOMAIN d) \cup (DOMAIN e) |-> IF k \in DOMAIN e THEN e[k] ELSE d[k]]

\* d.get(k): None when k is not a key
DictGet(d, k) == IF k \in DOMAIN d THEN d[k] ELSE NoneV

(***************************************************************************)
(* str and list operations used by the module.                             *)
(***************************************************************************)
UpperChars == <<"A","B","C","D","E","F","G","H","I","J","K","L","M",
                "N","O","P","Q","R","S","T","U","V","W","X","Y","Z">>
LowerChars == <<"a","b","c","d","e","f","g","h","i","j","k","l","m",
                "n","o","p","q","r","s","t","u","v","w","x","y","z">>

LowerChar(c) ==
    IF \E j \in 1..Len(UpperChars) : UpperChars[j] = c
    THEN LowerChars[CHOOSE j \in 1..Len(UpperChars) : UpperChars[j] = c]
    ELSE c

\* s.lower()
StrLower(s) == [j \in 1..Len(s) |-> LowerChar(s[j])]

\* s.count(c)
StrCount(s, c) == Cardinality({j \in 1..Len(s) : s[j] = c})

\* s.endswith(c)
EndsWith(s, c) == Len(s) > 0 /\ s[Len(s)] = c

\* s.lstrip(c)
RECURSIVE LStrip(_, _)
LStrip(s, c) == IF Len(s) > 0 /\ s[1] = c THEN LStrip(Tail(s), c) ELSE s

\* s.split(c)
RECURSIVE Split(_, _)
Split(s, c) ==
    IF \E j \in 1..Len(s) : s[j] = c
    THEN LET j == CHOOSE j \in 1..Len(s) : s[j] = c /\ \A m \in 1..(j-1) : s[m] # c
         IN  <<SubSeq(s, 1, j-1)>> \o Split(SubSeq(s, j+1, Len(s)), c)
    ELSE <<s>>

\* "".join(l)
RECURSIVE Join(_)
Join(l) == IF l = <<>> THEN <<>> ELSE Head(l) \o Join(Tail(l))

\* l[i:] for any integer i: a negative i counts from the end and is clamped
PySliceFrom(l, i) ==
    LET start == IF i < 0
                 THEN (IF Len(l) + i < 0 THEN 0 ELSE Len(l) + i)
                 ELSE (IF i > Len(l) THEN Len(l) ELSE i)
    IN  SubSeq(l, start + 1, Len(l))

\* max(l) of a non-empty collection of integers
SetMax(S) == CHOOSE m \in S : \A n \in S : n <= m

\* min(l): used only by a faulty variant
SetMin(S) == CHOOSE m \in S : \A n \in S : m <= n

(***************************************************************************)
(* pathlib: Path(fname).name and Path(fname).suffixes.                     *)
(***************************************************************************)
\* the final path component
PathName(path) ==
    LET parts == Split(path, "/") IN parts[Len(parts)]

\* Path(fname).suffixes
PathSuffixes(path) ==
    LET name == PathName(path)
    IN  IF EndsWith(name, ".")
        THEN <<>>
        ELSE LET parts == Split(LStrip(name, "."), ".")
             IN  [j \in 1..(Len(parts) - 1) |-> <<".">> \o parts[j + 1]]

(***************************************************************************)
(* Handlers: the callables stored in the registry.                         *)
(***************************************************************************)
\* a plain function object
Function(name) == [callable |-> name, keywords |-> EmptyDict]

\* functools.partial(_read_unsupported, suggest=s)
PartialUnsupported(s) ==
    [callable |-> "_read_unsupported", keywords |-> ("suggest" :> PyStr(s))]

\* supported = {...}: the base dict literal
SupportedBase ==
    (<<".", "e", "d", "f">> :> Function("mne.io.read_raw_edf")) @@
    (<<".", "b", "d", "f">> :> Function("mne.io.read_raw_bdf")) @@
    (<<".", "g", "d", "f">> :> Function("mne.io.read_raw_gdf")) @@
    (<<".", "v", "h", "d", "r">> :> Function("mne.io.read_raw_brainvision")) @@
    (<<".", "f", "i", "f">> :> Function("mne.io.read_raw_fif")) @@
    (<<".", "f", "i", "f", ".", "g", "z">> :> Function("mne.io.read_raw_fif")) @@
    (<<".", "s", "e", "t">> :> Function("mne.io.read_raw_eeglab")) @@
    (<<".", "c", "n", "t">> :> Function("mne.io.read_raw_cnt")) @@
    (<<".", "m", "f", "f">> :> Function("mne.io.read_raw_egi")) @@
    (<<".", "n", "x", "e">> :> Function("mne.io.read_raw_eximia")) @@
    (<<".", "h", "d", "r">> :> Function("mne.io.read_raw_nirx")) @@
    (<<".", "n", "p", "y">> :> Function("read_numpy"))

\* the entries added when pyxdf is installed
XdfEntries ==
    (<<".", "x", "d", "f">> :> Function("read_raw_xdf")) @@
    (<<".", "x", "d", "f", "z">> :> Function("read_raw_xdf")) @@
    (<<".", "x", "d", "f", ".", "g", "z">> :> Function("read_raw_xdf"))

\* faulty variant: the optional entries are registered whether or not pyxdf is installed
SupportedAlways(base, pyxdf) == DictUpdate(base, XdfEntries)

\* if have["pyxdf"]: supported.update({...})
Supported(base, pyxdf) == IF pyxdf THEN DictUpdate(base, XdfEntries) ELSE base

\* suggested = {...}
Suggested ==
    (<<".", "v", "m", "r", "k">> :> PartialUnsupported(<<".", "v", "h", "d", "r">>)) @@
    (<<".", "e", "e", "g">> :> PartialUnsupported(<<".", "v", "h", "d", "r">>))

\* readers = {**supported, **suggested}
Readers(sup, sug) == DictUpdate(sup, sug)

(***************************************************************************)
(* Results of a call: a returned Raw object or a raised exception.         *)
(***************************************************************************)
NoRaw == [nchan |-> 0, sfreq |-> NoneV, filenames |-> <<>>]

NoOutcome ==
    [status |-> "none", exc |-> "", text |-> "", ext |-> <<>>,
     suffixes |-> <<>>, hint |-> NoneV, ndim |-> 0, nargs |-> 0, raw |-> NoRaw]

Returned(raw) == [NoOutcome EXCEPT !.status = "returned", !.raw = raw]

Raised(exc, text) ==
    [NoOutcome EXCEPT !.status = "raised", !.exc = exc, !.text = text]

(***************************************************************************)
(* _read_unsupported(fname, **kwargs)                                      *)
(***************************************************************************)
\* ext = "".join(Path(fname).suffixes); msg = f"Unsupported file type ({ext})."
\* suggest = kwargs.get("suggest"); the hint is appended unless it is None
UnsupportedBody(path, kw) ==
    [Raised("ValueError", "Unsupported file type")
        EXCEPT !.ext = Join(PathSuffixes(path)), !.hint = DictGet(kw, "suggest")]

\* the call of _read_unsupported with the positional arguments pos (the file
\* name first) and the keyword arguments kw: one positional parameter only
read_unsupported(pos, kw) ==
    IF Len(pos) > 1
    THEN [Raised("TypeError", "takes 1 positional argument") EXCEPT !.nargs = Len(pos)]
    ELSE UnsupportedBody(pos[1], kw)

(***************************************************************************)
(* read_numpy(fname, sfreq, *args, **kwargs)                               *)
(***************************************************************************)
\* the arrays a .npy file may hold; ok = FALSE is a file np.load rejects
Arrays ==
    {[ok |-> FALSE, ndim |-> 0, shape |-> <<>>]} \cup
    UNION {{[ok |-> TRUE, ndim |-> n, shape |-> sh] : sh \in [1..n -> 1..MaxDim]}
           : n \in 0..MaxNdim}

\* mne.create_info(n, sfreq) and mne.io.RawArray(npy, info): n channels at sfreq
RawArray(n, sfreq) == [nchan |-> n, sfreq |-> sfreq, filenames |-> <<>>]

\* faulty variant: any array of at least two dimensions is accepted
NdimAtLeastTwo(npy) == npy.ndim < 2

\* if npy.ndim != 2
NdimRejected(npy) == npy.ndim # 2

\* the body of read_numpy once np.load(fname) has produced npy
NumpyBody(path, sfreq, npy) ==
    IF ~npy.ok
    THEN Raised("OSError", "np.load failed")
    ELSE IF NdimRejected(npy)
    THEN [Raised("ValueError", "Array must have two dimensions") EXCEPT !.ndim = npy.ndim]
    ELSE Returned([RawArray(npy.shape[1], sfreq) EXCEPT !.filenames = <<path>>])

\* whether (fname, sfreq, *args, **kwargs) accepts the call: sfreq is given once
NumpyBinds(pos, kw) == (Len(pos) >= 2) # ("sfreq" \in DOMAIN kw)

\* the call of read_numpy with positional arguments pos and keywords kw:
\* sfreq is the second positional argument or the keyword sfreq, never both
read_numpy(pos, kw, npy) ==
    IF Len(pos) >= 2
    THEN IF "sfreq" \in DOMAIN kw
         THEN Raised("TypeError", "got multiple values for argument 'sfreq'")
         ELSE NumpyBody(pos[1], pos[2], npy)
    ELSE IF "sfreq" \in DOMAIN kw
         THEN NumpyBody(pos[1], kw["sfreq"], npy)
         ELSE Raised("TypeError", "missing 1 required positional argument: 'sfreq'")

(***************************************************************************)
(* The parsers of mne.io and read_raw_xdf: external, a Raw object or a     *)
(* format-specific failure.                                                *)
(***************************************************************************)
external_parser(pos, kw, ok) ==
    IF ok
    THEN Returned([nchan |-> 1, sfreq |-> NoneV, filenames |-> <<pos[1]>>])
    ELSE Raised("ParserError", "format-specific failure")

(***************************************************************************)
(* read_raw                                                                *)
(***************************************************************************)
\* faulty variant: the bound is the smallest dot-count of a supported suffix
MinSuffixes(sup) == SetMin({StrCount(k, ".") : k \in DOMAIN sup})

\* maxsuffixes = max([ext.count(".") for ext in supported])
MaxSuffixes(sup) == SetMax({StrCount(k, ".") : k \in DOMAIN sup})

\* faulty variant: the candidate is not lower-cased
CandidateAsTyped(sfx, j) == Join(PySliceFrom(sfx, j))

\* faulty variant: only the last suffix component is ever looked up
CandidateLastOnly(sfx, j) == StrLower(Join(PySliceFrom(sfx, -1)))

\* ext = "".join(suffixes[i:]).lower()
Candidate(sfx, j) == StrLower(Join(PySliceFrom(sfx, j)))

\* faulty variant: the error names the last candidate tried instead of the suffixes
UnknownErrorLast(sfx) ==
    [Raised("ValueError", "Unknown file type") EXCEPT !.suffixes = PySliceFrom(sfx, -1)]

\* raise ValueError(f"Unknown file type {suffixes}.")
UnknownError(sfx) ==
    [Raised("ValueError", "Unknown file type") EXCEPT !.suffixes = sfx]

\* the invocation readers[ext](fname, *args, **kwargs), as recorded in the log
Invocation(h, path, a, kw) == [handler |-> h, fname |-> path, args |-> a, kwargs |-> kw]

(***************************************************************************)
(* Inputs.                                                                 *)
(***************************************************************************)
\* every suffix the module can register
AllKeys == DOMAIN Readers(Supported(SupportedBase, TRUE), Suggested)

FileNames ==
    {<<"a">> \o k : k \in AllKeys} \cup
    { <<"D", "a", "t", "a", ".", "E", "D", "F">>, <<"a", ".", "b", ".", "e", "d", "f">>, <<"A", ".", "F", "i", "f", ".", "G", "Z">>, <<"a", ".", "g", "z">>, <<"a", ".", "b", ".", "v", "m", "r", "k">>,
      <<"X", ".", "V", "M", "R", "K">>, <<"S", ".", "X", "D", "F", ".", "G", "Z">>, <<"d", "a", "t", "a", ".", "u", "n", "k", "n", "o", "w", "n", "e", "x", "t">>, <<"n", "o", "e", "x", "t">>, <<".", "e", "d", "f">>,
      <<"a", ".", "e", "d", "f", ".">>, <<"d", ".", "e", "d", "f", "/", "r", "e", "a", "d", "m", "e">>, <<"d", "/", "a", ".", "f", "i", "f", ".", "g", "z">>, <<"a", ".", "e", "e", "g", ".", "g", "z">>, <<"a", ".", "x", ".", "y", ".", "z">> }

ArgValues == {PyInt(250)}

ArgLists == UNION {[1..n -> ArgValues] : n \in 0..MaxArgs}

KwargDicts ==
    { EmptyDict,
      "suggest" :> PyStr(<<".", "e", "d", "f">>),
      "suggest" :> NoneV,
      "sfreq" :> PyInt(500) }

(***************************************************************************)
(* State.                                                                  *)
(***************************************************************************)
VARIABLES
    have,         \* have["pyxdf"]
    supported,    \* the dict supported
    suggested,    \* the dict suggested
    readers,      \* the dict readers
    pc,           \* where the running read_raw call is
    fname,        \* read_raw's argument fname
    args,         \* read_raw's *args
    kwargs,       \* read_raw's **kwargs
    maxsuffixes,  \* read_raw's local maxsuffixes
    suffixes,     \* read_raw's local suffixes
    i,            \* the loop variable of read_raw
    ext,          \* read_raw's local ext
    calls,        \* log: the handler invocations of the running call
    npy,          \* the array np.load produced in the running call
    hres,         \* what the invoked handler returned or raised
    outcome,      \* what read_raw returned or raised
    prev          \* log: how the previous call resolved

vars == <<have, supported, suggested, readers, pc, fname, args, kwargs,
          maxsuffixes, suffixes, i, ext, calls, npy, hres, outcome, prev>>

registry == <<have, supported, suggested, readers>>

NoArray == [ok |-> FALSE, ndim |-> 0, shape |-> <<>>]

NoPrev == [set |-> FALSE, fname |-> <<>>, matched |-> FALSE, key |-> <<>>,
           handler |-> Function("")]

\* the locals of a call that has not started
Idle ==
    /\ pc = "idle"
    /\ fname = <<>> /\ args = <<>> /\ kwargs = EmptyDict
    /\ maxsuffixes = 0 /\ suffixes = <<>> /\ i = 0 /\ ext = <<>>
    /\ calls = <<>> /\ npy = NoArray /\ hres = NoOutcome /\ outcome = NoOutcome

\* the module has been imported: lines 52-75 have run
Init ==
    /\ have \in BOOLEAN
    /\ supported = Supported(SupportedBase, have)
    /\ suggested = Suggested
    /\ readers = Readers(supported, suggested)
    /\ prev = NoPrev
    /\ Idle

\* read_raw(f, *a, **kw) is entered: lines 96-98 up to the first iteration
Call ==
    /\ pc = "idle"
    /\ \E f \in FileNames, a \in ArgLists, kw \in KwargDicts :
          /\ fname' = f
          /\ args' = a
          /\ kwargs' = kw
          /\ maxsuffixes' = MaxSuffixes(supported)
          /\ suffixes' = PathSuffixes(f)
          /\ i' = -MaxSuffixes(supported)
    /\ pc' = "loop"
    /\ UNCHANGED <<registry, ext, calls, npy, hres, outcome, prev>>

\* an iteration whose candidate is not a key of readers
LoopMiss ==
    /\ pc = "loop" /\ i < 0
    /\ Candidate(suffixes, i) \notin DOMAIN readers
    /\ ext' = Candidate(suffixes, i)
    /\ i' = i + 1
    /\ UNCHANGED <<registry, pc, fname, args, kwargs, maxsuffixes, suffixes,
                   calls, npy, hres, outcome, prev>>

\* the iteration whose candidate is a key: the handler h is invoked and ends with r
Invoke(h, r, array) ==
    /\ ext' = Candidate(suffixes, i)
    /\ calls' = Append(calls, Invocation(h, fname, args, kwargs))
    /\ npy' = array
    /\ hres' = r
    /\ pc' = "called"
    /\ UNCHANGED <<registry, fname, args, kwargs, maxsuffixes, suffixes, i,
                   outcome, prev>>

Hit == pc = "loop" /\ i < 0 /\ Candidate(suffixes, i) \in DOMAIN readers

\* readers[ext] is the partial of _read_unsupported
InvokeUnsupported ==
    /\ Hit
    /\ LET h == readers[Candidate(suffixes, i)]
       IN  /\ h.callable = "_read_unsupported"
           /\ Invoke(h, read_unsupported(<<fname>> \o args,
                                         DictUpdate(h.keywords, kwargs)), npy)

\* readers[ext] is read_numpy; np.load runs only when the arguments bind
InvokeNumpy ==
    /\ Hit
    /\ LET h == readers[Candidate(suffixes, i)]
           pos == <<fname>> \o args
           kw == DictUpdate(h.keywords, kwargs)
       IN  /\ h.callable = "read_numpy"
           /\ IF NumpyBinds(pos, kw)
              THEN \E array \in Arrays : Invoke(h, read_numpy(pos, kw, array), array)
              ELSE Invoke(h, read_numpy(pos, kw, NoArray), npy)

\* readers[ext] is a parser of mne.io or read_raw_xdf
InvokeParser ==
    /\ Hit
    /\ LET h == readers[Candidate(suffixes, i)]
       IN  /\ h.callable \notin {"_read_unsupported", "read_numpy"}
           /\ \E ok \in BOOLEAN :
                 Invoke(h, external_parser(<<fname>> \o args,
                                           DictUpdate(h.keywords, kwargs), ok), npy)

\* faulty variant: a handler's failure is swallowed and the next candidate is tried
ReturnOrFallBack ==
    /\ pc = "called"
    /\ IF hres.status = "raised"
       THEN /\ pc' = "loop" /\ i' = i + 1 /\ outcome' = outcome
       ELSE /\ pc' = "done" /\ i' = i /\ outcome' = hres
    /\ UNCHANGED <<registry, fname, args, kwargs, maxsuffixes, suffixes, ext,
                   calls, npy, hres, prev>>

\* return readers[ext](...): the handler's result or exception is read_raw's
ReturnHandler ==
    /\ pc = "called"
    /\ outcome' = hres
    /\ pc' = "done"
    /\ UNCHANGED <<registry, fname, args, kwargs, maxsuffixes, suffixes, i, ext,
                   calls, npy, hres, prev>>

\* the loop ended without a key: line 102
RaiseUnknown ==
    /\ pc = "loop" /\ i >= 0
    /\ outcome' = UnknownError(suffixes)
    /\ pc' = "done"
    /\ UNCHANGED <<registry, fname, args, kwargs, maxsuffixes, suffixes, i, ext,
                   calls, npy, hres, prev>>

\* the caller has the outcome; the next call may start
Finish ==
    /\ pc = "done"
    /\ prev' = [set |-> TRUE, fname |-> fname, matched |-> calls # <<>>,
                key |-> IF calls # <<>> THEN ext ELSE <<>>,
                handler |-> IF calls # <<>> THEN calls[1].handler ELSE Function("")]
    /\ pc' = "idle"
    /\ fname' = <<>> /\ args' = <<>> /\ kwargs' = EmptyDict
    /\ maxsuffixes' = 0 /\ suffixes' = <<>> /\ i' = 0 /\ ext' = <<>>
    /\ calls' = <<>> /\ npy' = NoArray /\ hres' = NoOutcome /\ outcome' = NoOutcome
    /\ UNCHANGED registry

Next ==
    \/ Call
    \/ LoopMiss
    \/ InvokeUnsupported
    \/ InvokeNumpy
    \/ InvokeParser
    \/ ReturnHandler
    \/ RaiseUnknown
    \/ Finish

Spec == Init /\ [][Next]_vars

(***************************************************************************)
(* The construction of readers from arbitrary sub-registries.              *)
(***************************************************************************)
PoolKeys == {<<".", "e", "d", "f">>, <<".", "e", "e", "g">>, <<".", "v", "m", "r", "k">>}

SupportedPool == {[k \in S |-> Function("mne.io.read_raw_edf")] : S \in SUBSET PoolKeys}

SuggestedPool == {[k \in S |-> PartialUnsupported(<<".", "v", "h", "d", "r">>)] : S \in SUBSET PoolKeys}

\* the module is being imported: supported and suggested exist, readers not yet
InitImport ==
    /\ have \in BOOLEAN
    /\ \E base \in SupportedPool : supported = Supported(base, have)
    /\ suggested \in SuggestedPool
    /\ readers = EmptyDict
    /\ prev = NoPrev
    /\ pc = "import"
    /\ fname = <<>> /\ args = <<>> /\ kwargs = EmptyDict
    /\ maxsuffixes = 0 /\ suffixes = <<>> /\ i = 0 /\ ext = <<>>
    /\ calls = <<>> /\ npy = NoArray /\ hres = NoOutcome /\ outcome = NoOutcome

\* line 75: readers = {**supported, **suggested}
BuildReaders ==
    /\ pc = "import"
    /\ readers' = Readers(supported, suggested)
    /\ pc' = "idle"
    /\ UNCHANGED <<have, supported, suggested, fname, args, kwargs, maxsuffixes,
                   suffixes, i, ext, calls, npy, hres, outcome, prev>>

NextImport == BuildReaders

SpecImport == InitImport /\ [][NextImport]_vars

(***************************************************************************)
(* The claims.  The statements below speak of the file name's suffix       *)
(* components and of the registry; what read_raw did is read from the      *)
(* state: calls, hres, outcome, ext.                                       *)
(***************************************************************************)
\* the number of dots of a suffix
DotCount(k) == Len(Split(k, ".")) - 1

\* the largest dot-count of a supported suffix
LongestSupported == CHOOSE m \in {DotCount(k) : k \in DOMAIN supported} :
                        \A k \in DOMAIN supported : DotCount(k) <= m

\* the last k components of a list (all of them when it has fewer)
LastK(l, k) == IF k >= Len(l) THEN l ELSE SubSeq(l, Len(l) - k + 1, Len(l))

LowerAll(l) == [j \in 1..Len(l) |-> StrLower(l[j])]

\* the candidate suffix of length k of a file name
SuffixOfLength(path, k) == Join(LowerAll(LastK(PathSuffixes(path), k)))

\* the lengths k in 1..maxLen whose candidate is a registry key
MatchingLengths(path) ==
    {k \in 1..LongestSupported : SuffixOfLength(path, k) \in DOMAIN readers}

LongestMatch(path) == SuffixOfLength(path, SetMax(MatchingLengths(path)))

IsUnknownFormat(o) ==
    o.status = "raised" /\ o.exc = "ValueError" /\ o.text = "Unknown file type"

IsUnsupportedFormat(o) ==
    o.status = "raised" /\ o.exc = "ValueError" /\ o.text = "Unsupported file type"

\* C1: when some candidate suffix of the file name is a registry key, read_raw
\* invokes the handler registered for the longest such candidate, and no other.
C1_LongestMatchDispatched ==
    (pc = "done" /\ MatchingLengths(fname) # {}) =>
        /\ Len(calls) = 1
        /\ ext = LongestMatch(fname)
        /\ calls[1].handler = readers[LongestMatch(fname)]

\* 'a.fif.gz' was dispatched to the '.fif.gz' entry
C1_Witness ==
    /\ pc = "done"
    /\ fname = <<"a", ".", "f", "i", "f", ".", "g", "z">>
    /\ ext = <<".", "f", "i", "f", ".", "g", "z">>
    /\ Len(calls) = 1
    /\ calls[1].handler.callable = "mne.io.read_raw_fif"

\* C2: when no candidate suffix of any length is a registry key, read_raw
\* raises the unknown-format error, the error carries the file name's suffix
\* components, and no handler was invoked.
C2_UnknownFormat ==
    (pc = "done" /\ MatchingLengths(fname) = {}) =>
        /\ IsUnknownFormat(outcome)
        /\ outcome.suffixes = PathSuffixes(fname)
        /\ calls = <<>>

\* 'data.unknownext' failed with the error naming '.unknownext'
C2_Witness ==
    /\ pc = "done"
    /\ fname = <<"d", "a", "t", "a", ".", "u", "n", "k", "n", "o", "w", "n", "e", "x", "t">>
    /\ IsUnknownFormat(outcome)
    /\ outcome.suffixes = <<<<".", "u", "n", "k", "n", "o", "w", "n", "e", "x", "t">>>>
    /\ calls = <<>>

\* C3: a file name that resolves to '.vmrk' or '.eeg' fails, whatever the
\* positional and named options, with the unsupported-format error that
\* recommends '.vhdr'.
C3_UnsupportedWhateverOptions ==
    (pc = "done" /\ calls # <<>> /\ ext \in {<<".", "v", "m", "r", "k">>, <<".", "e", "e", "g">>}) =>
        /\ IsUnsupportedFormat(outcome)
        /\ outcome.hint = PyStr(<<".", "v", "h", "d", "r">>)

\* C4: two calls whose file names have the same suffix components after
\* lower-casing resolve alike: the same key and handler, or unknown-format both.
C4_CaseInsensitive ==
    (/\ pc = "done"
     /\ prev.set
     /\ LowerAll(PathSuffixes(prev.fname)) = LowerAll(PathSuffixes(fname))) =>
        /\ prev.matched = (calls # <<>>)
        /\ prev.matched => (prev.key = ext /\ prev.handler = calls[1].handler)
        /\ ~prev.matched => IsUnknownFormat(outcome)

\* 'Data.EDF' and then 'a.edf' both went to the '.edf' parser
C4_Witness ==
    /\ pc = "done"
    /\ prev.set
    /\ prev.fname = <<"D", "a", "t", "a", ".", "E", "D", "F">>
    /\ fname = <<"a", ".", "e", "d", "f">>
    /\ prev.matched
    /\ prev.key = <<".", "e", "d", "f">>
    /\ calls # <<>>

XdfFamily == {<<".", "x", "d", "f">>, <<".", "x", "d", "f", "z">>, <<".", "x", "d", "f", ".", "g", "z">>}

HasXdfSuffix(path) == \E k \in 1..2 : SuffixOfLength(path, k) \in XdfFamily

\* C5: without pyxdf a file name with a suffix of the xdf family fails with the
\* unknown-format error and no handler is invoked; with pyxdf it is dispatched
\* to read_raw_xdf.
C5_OptionalCapability ==
    (pc = "done" /\ HasXdfSuffix(fname)) =>
        IF have
        THEN Len(calls) = 1 /\ calls[1].handler = Function("read_raw_xdf")
        ELSE IsUnknownFormat(outcome) /\ calls = <<>>

\* 'a.xdf.gz' failed as unknown in a process without pyxdf
C5_Witness ==
    /\ pc = "done"
    /\ ~have
    /\ fname = <<"a", ".", "x", "d", "f", ".", "g", "z">>
    /\ IsUnknownFormat(outcome)
    /\ calls = <<>>

C7_SingleInvocationVerbatim ==
    /\ Len(calls) <= 1
    /\ pc = "done" =>
          IF calls = <<>>
          THEN IsUnknownFormat(outcome)
          ELSE /\ outcome = hres
               /\ calls[1] = Invocation(readers[ext], fname, args, kwargs)

\* a handler given positional options failed and its failure is the outcome
C7_Witness ==
    /\ pc = "done"
    /\ Len(calls) = 1
    /\ args # <<>>
    /\ hres.status = "raised"
    /\ hres.exc = "ParserError"
    /\ outcome = hres

\* the sampling rate read_numpy is given: the second positional argument or
\* the keyword sfreq
SfreqSupplied == (args # <<>>) # ("sfreq" \in DOMAIN kwargs)

SuppliedSfreq == IF args # <<>> THEN args[1] ELSE kwargs["sfreq"]

\* C8: read_numpy, given a sampling rate and an array that np.load produced,
\* raises the shape error with the array's dimensionality when that is not 2,
\* and otherwise returns a Raw object with as many channels as the array has
\* rows, the given sampling rate and the file path as its source.
C8_ReadNumpy ==
    (/\ pc \in {"called", "done"}
     /\ calls # <<>>
     /\ calls[1].handler = Function("read_numpy")
     /\ npy.ok
     /\ SfreqSupplied) =>
        IF npy.ndim # 2
        THEN /\ hres.status = "raised"
             /\ hres.exc = "ValueError"
             /\ hres.text = "Array must have two dimensions"
             /\ hres.ndim = npy.ndim
             /\ hres.raw = NoRaw
        ELSE /\ hres.status = "returned"
             /\ hres.raw.nchan = npy.shape[1]
             /\ hres.raw.sfreq = SuppliedSfreq
             /\ hres.raw.filenames = <<fname>>

\* a 2 x 1 array loaded at 250 Hz gave a Raw object of 2 channels
C8_Witness ==
    /\ pc = "done"
    /\ npy.ok
    /\ npy.ndim = 2
    /\ npy.shape = <<2, 1>>
    /\ args = <<PyInt(250)>>
    /\ outcome.status = "returned"
    /\ outcome.raw.nchan = 2
    /\ outcome.raw.sfreq = PyInt(250)

\* C9: the unsupported-format message states the registry key the resolver
\* matched.
C9_MessageStatesMatchedKey ==
    (/\ pc = "done"
     /\ calls # <<>>
     /\ ext \in DOMAIN suggested
     /\ IsUnsupportedFormat(outcome)) =>
        outcome.ext = ext

\* C10: the bound computed from supported is 2 and no registry key has more
\* dots, so a file name whose suffix components concatenate to a registry key
\* resolves to a registry entry and never fails as unknown.
C10_BoundCoversRegistry ==
    /\ pc # "idle" => maxsuffixes = 2
    /\ \A k \in DOMAIN readers : DotCount(k) <= 2
    /\ (pc = "done" /\ Join(PathSuffixes(fname)) \in DOMAIN readers) =>
          /\ calls # <<>>
          /\ ~IsUnknownFormat(outcome)

\* with pyxdf, 'a.xdf.gz' was tried at length 2 and resolved
C10_Witness ==
    /\ pc = "done"
    /\ have
    /\ maxsuffixes = 2
    /\ fname = <<"a", ".", "x", "d", "f", ".", "g", "z">>
    /\ ext = <<".", "x", "d", "f", ".", "g", "z">>
    /\ calls # <<>>

=============================================================================
